---- MODULE Spec2Model ----
(***************************************************************************)
(* The in-memory instance cache of server.js: the Map gameInstances, the   *)
(* five request handlers and the periodic sweep.  Node runs every handler  *)
(* and every timer callback to completion on one thread, so each is one    *)
(* action; SpecSteps runs the report and the sweep statement by statement. *)
(***************************************************************************)
EXTENDS Integers, Sequences, FiniteSets, TLC

(***************************************************************************)
(* Program constants                                                       *)
(***************************************************************************)
MAX_STORED_INSTANCES == 100
INSTANCE_TTL == 3600000
SWEEP_INTERVAL == 300000
\* the literal of the admission test
MIN_VALUE == 3000000
\* the literals of the query defaults
DEFAULT_MIN_VALUE == 3000000
DEFAULT_LIMIT == 50

(***************************************************************************)
(* Bounds of the model                                                     *)
(***************************************************************************)
\* Date.now() (ms) when the model starts: the timer was set, or has just run.
T0 == 4000000
\* Clock steps per sweep interval.
StepsPerInterval == 2
\* Spec: the sweep intervals the clock runs through, and the reports sent.
ShortTicks == 1
MaxReports == 2
\* SpecLong: the sweep intervals the clock runs through (more than the TTL),
\* the reports sent, and the sweep intervals during which they are sent.
MaxTicks == 13
LongReports == 1
ReportTicks == 1
\* Number of entries of the small cache the model may start from.
SeedSize == 2
\* SpecText: the reports sent.
TextReports == 3

ClockStep == SWEEP_INTERVAL \div StepsPerInterval

(***************************************************************************)
(* JavaScript values: a number, a string of decimal digits (as JSON       *)
(* carries "5000000"), or undefined/NaN (which is falsy and makes every    *)
(* relational comparison false).                                           *)
(***************************************************************************)
Num(n) == [isNum |-> TRUE, isStr |-> FALSE, n |-> n]
\* the string of the decimal digits of n
Str(n) == [isNum |-> FALSE, isStr |-> TRUE, n |-> n]
Undefined == [isNum |-> FALSE, isStr |-> FALSE, n |-> 0]
NaN == [isNum |-> FALSE, isStr |-> FALSE, n |-> 0]

\* The decimal digits of n >= 0, the characters of the string.
RECURSIVE DecimalDigits(_)
DecimalDigits(n) ==
    IF n < 10 THEN <<n>> ELSE Append(DecimalDigits(n \div 10), n % 10)

\* s < t for two strings: by the first character that differs.
RECURSIVE StringLess(_, _)
StringLess(s, t) ==
    IF t = <<>> THEN FALSE
    ELSE IF s = <<>> THEN TRUE
    ELSE IF Head(s) # Head(t) THEN Head(s) < Head(t)
    ELSE StringLess(Tail(s), Tail(t))

\* ToNumber(v) is a number (v.n), not NaN.
HasNumber(v) == v.isNum \/ v.isStr

\* a < b: two strings are compared as strings, anything else as numbers
JSLess(a, b) ==
    IF a.isStr /\ b.isStr
    THEN StringLess(DecimalDigits(a.n), DecimalDigits(b.n))
    ELSE HasNumber(a) /\ HasNumber(b) /\ a.n < b.n
\* a > b
JSGreater(a, b) ==
    IF a.isStr /\ b.isStr
    THEN StringLess(DecimalDigits(b.n), DecimalDigits(a.n))
    ELSE HasNumber(a) /\ HasNumber(b) /\ a.n > b.n
\* a >= b
JSGeq(a, b) ==
    IF a.isStr /\ b.isStr
    THEN ~StringLess(DecimalDigits(a.n), DecimalDigits(b.n))
    ELSE HasNumber(a) /\ HasNumber(b) /\ a.n >= b.n
\* ToBoolean: 0, NaN and undefined are falsy
Truthy(v) == (v.isNum /\ v.n # 0) \/ v.isStr
\* v || d
JSOr(v, d) == IF Truthy(v) THEN v ELSE d
\* s || d for strings: the empty string is falsy
StrOr(s, d) == IF s = "" THEN d ELSE s
\* Math.floor(a / b) for b > 0
Floor(a, b) == a \div b

(***************************************************************************)
(* Identifiers are strings, modelled as sequences of characters; the empty *)
(* sequence is the missing or empty (falsy) identifier.                    *)
(***************************************************************************)
\* `${placeId}_${gameInstanceId}`
MakeKey(placeId, gameInstanceId) == placeId \o <<"_">> \o gameInstanceId

(***************************************************************************)
(* The Map: a sequence of [key, data] in insertion order.                  *)
(***************************************************************************)
MapKeys(m) == {m[i].key : i \in 1..Len(m)}
MapHas(m, k) == k \in MapKeys(m)
MapIndex(m, k) == CHOOSE i \in 1..Len(m) : m[i].key = k

\* A mutant of Map.set: always appends.
MapSetAppend(m, k, d) == Append(m, [key |-> k, data |-> d])

\* A mutant of Map.set: an existing key moves to the end.
MapSetMoveToEnd(m, k, d) ==
    Append(SelectSeq(m, LAMBDA e : e.key # k), [key |-> k, data |-> d])

\* Map.prototype.set: an existing key keeps its position.
MapSet(m, k, d) ==
    IF MapHas(m, k)
    THEN [m EXCEPT ![MapIndex(m, k)] = [key |-> k, data |-> d]]
    ELSE Append(m, [key |-> k, data |-> d])

\* Map.prototype.delete
MapDelete(m, k) == SelectSeq(m, LAMBDA e : e.key # k)

\* A mutant of the eviction: the key inserted last.
LastKey(m) == m[Len(m)].key

\* gameInstances.keys().next().value
FirstKey(m) == m[1].key

(***************************************************************************)
(* Request inputs                                                          *)
(***************************************************************************)
P1 == <<"a">>
P2 == <<"a", "_", "b">>
I1 == <<"c">>
I2 == <<"b", "_", "c">>
NoId == <<>>

NoAnimal ==
    [present |-> FALSE, displayName |-> "", value |-> Undefined,
     generation |-> "", rarity |-> ""]
\* animalData: {} (an object without fields)
EmptyAnimal ==
    [present |-> TRUE, displayName |-> "", value |-> Undefined,
     generation |-> "", rarity |-> ""]
Dog(v) ==
    [present |-> TRUE, displayName |-> "Dog", value |-> v,
     generation |-> "G1", rarity |-> "rare"]
Cat(v) ==
    [present |-> TRUE, displayName |-> "Cat", value |-> v,
     generation |-> "G2", rarity |-> "epic"]

Body(p, g, ad, ts, src) ==
    [placeId |-> p, gameInstanceId |-> g, animalData |-> ad,
     timestamp |-> ts, source |-> src]

\* A timestamp (s) long before T0, and one far in the future.
PastStamp == 1
FutureStamp == 100000

\* The request bodies of /api/report that the model sends.
ReportBodies ==
    {Body(P1, I1, Cat(Num(5000000)), Undefined, ""),
     Body(P1, I2, Cat(Num(5000000)), Undefined, ""),
     Body(P2, I1, Cat(Num(5000000)), Undefined, "")}
    \cup {Body(NoId, I1, Cat(Num(5000000)), Undefined, ""),
          Body(P1, NoId, Cat(Num(5000000)), Undefined, ""),
          Body(NoId, I1, Dog(Num(2999999)), Undefined, "")}
    \cup {Body(P1, I1, ad, Undefined, "roblox") :
            ad \in {NoAnimal, EmptyAnimal, Dog(Undefined), Dog(Num(2999999)),
                    Dog(Num(MIN_VALUE))}}
    \cup {Body(P1, I1, Dog(Num(4000000)), Num(ts), "") : ts \in {0, PastStamp}}
    \cup {Body(<<"f">>, <<"i", "x">>, Dog(Num(4000000)), Undefined, "roblox")}

\* The request bodies sent when the clock runs for longer than the TTL.
LongBodies ==
    {Body(P1, I1, Cat(Num(5000000)), Undefined, ""),
     Body(P1, I2, Dog(Num(MIN_VALUE)), Undefined, "roblox"),
     Body(P1, I1, Dog(Num(2999999)), Undefined, "roblox"),
     Body(<<"f">>, <<"i", "x">>, Dog(Num(4000000)), Undefined, "roblox")}
    \cup {Body(P1, I1, Dog(Num(4000000)), Num(ts), "") :
            ts \in {0, PastStamp, FutureStamp}}

NoBody == Body(NoId, NoId, NoAnimal, Undefined, "")

(***************************************************************************)
(* State                                                                   *)
(***************************************************************************)
VARIABLES
    gameInstances,  \* the Map, in insertion order
    now,            \* Date.now()
    nextSweep,      \* when the setInterval callback is next due
    req,            \* the request handled last (none after the clock moved)
    res,            \* the response to it
    nReports        \* number of /api/report requests so far

vars == <<gameInstances, now, nextSweep, req, res, nReports>>

NoReq == [op |-> "none", body |-> NoBody, minValue |-> <<>>, limit |-> <<>>, id |-> NoId]
NoRes ==
    [status |-> 0, success |-> FALSE, message |-> "", error |-> "",
     instanceId |-> NoId, count |-> 0, instances |-> <<>>, instance |-> <<>>,
     deleted |-> FALSE, size |-> 0]

\* The entry stored at position i of a cache the program filled earlier:
\* reported without timestamp and source, one millisecond apart.
FillerData(i, n, t) ==
    [placeId |-> <<"f">>,
     gameInstanceId |-> <<"i">> \o [j \in 1..i |-> "x"],
     animalData |-> [displayName |-> "Pet", value |-> Num(MIN_VALUE + (i % 3) * 1000000),
                     generation |-> "G0", rarity |-> "common"],
     timestamp |-> Floor(t - (n - i + 1), 1000),
     source |-> "unknown",
     lastUpdated |-> t - (n - i + 1)]
Filler(n, t) ==
    [i \in 1..n |->
        [key |-> MakeKey(FillerData(i, n, t).placeId, FillerData(i, n, t).gameInstanceId),
         data |-> FillerData(i, n, t)]]

\* The process has just started, or the timer has just run and the cache
\* holds SeedSize reports stored shortly before.
Init ==
    /\ gameInstances \in {<<>>, Filler(SeedSize, T0)}
    /\ now = T0
    /\ nextSweep = now + SWEEP_INTERVAL
    /\ req = NoReq
    /\ res = NoRes
    /\ nReports = 0

\* The cache is full, or one short of it, and the timer is due.
InitFull ==
    /\ gameInstances \in {Filler(MAX_STORED_INSTANCES - 1, T0),
                          Filler(MAX_STORED_INSTANCES, T0)}
    /\ now = T0
    /\ nextSweep = now
    /\ req = NoReq
    /\ res = NoRes
    /\ nReports = 0

(***************************************************************************)
(* POST /api/report                                                        *)
(***************************************************************************)
\* !placeId || !gameInstanceId || !animalData
MissingFields(body) ==
    body.placeId = NoId \/ body.gameInstanceId = NoId \/ ~body.animalData.present

\* A mutant of the admission test: a zero of the literal is lost.
TooLowLostZero(body) == JSLess(body.animalData.value, Num(MIN_VALUE \div 10))

\* animalData.value < 3000000
TooLow(body) == JSLess(body.animalData.value, Num(MIN_VALUE))

\* the object literal instanceData
InstanceData(body, t) ==
    [placeId |-> body.placeId,
     gameInstanceId |-> body.gameInstanceId,
     animalData |-> [displayName |-> body.animalData.displayName,
                     value |-> body.animalData.value,
                     generation |-> body.animalData.generation,
                     rarity |-> body.animalData.rarity],
     timestamp |-> JSOr(body.timestamp, Num(Floor(t, 1000))).n,
     source |-> StrOr(body.source, "unknown"),
     lastUpdated |-> t]

\* A mutant of the size limit: one entry too many is allowed.
LimitSizeOffByOne(m) ==
    IF Len(m) > MAX_STORED_INSTANCES + 1 THEN MapDelete(m, FirstKey(m)) ELSE m

\* A mutant of the size limit: the newest entry is the one deleted.
LimitSizeDropsNewest(m) ==
    IF Len(m) > MAX_STORED_INSTANCES THEN SubSeq(m, 1, Len(m) - 1) ELSE m

\* if (gameInstances.size > MAX_STORED_INSTANCES) delete the first key
LimitSize(m) ==
    IF Len(m) > MAX_STORED_INSTANCES THEN MapDelete(m, FirstKey(m)) ELSE m

\* The Map after the handler has run with this body at time t.
ReportMap(m, body, t) ==
    IF MissingFields(body) \/ TooLow(body)
    THEN m
    ELSE LimitSize(MapSet(m, MakeKey(body.placeId, body.gameInstanceId),
                          InstanceData(body, t)))

ReportResponse(body) ==
    IF MissingFields(body)
    THEN [NoRes EXCEPT !.status = 400, !.success = FALSE,
                       !.error = "Missing required fields"]
    ELSE IF TooLow(body)
    THEN [NoRes EXCEPT !.status = 200, !.success = TRUE,
                       !.message = "Value too low, not stored"]
    ELSE [NoRes EXCEPT !.status = 200, !.success = TRUE,
                       !.message = "Instance stored successfully",
                       !.instanceId = MakeKey(body.placeId, body.gameInstanceId)]

Report(body) ==
    /\ gameInstances' = ReportMap(gameInstances, body, now)
    /\ req' = [NoReq EXCEPT !.op = "report", !.body = body]
    /\ res' = ReportResponse(body)
    /\ nReports' = nReports + 1
    /\ UNCHANGED <<now, nextSweep>>

(***************************************************************************)
(* The sweep timer and the clock                                           *)
(***************************************************************************)
\* now - data.timestamp * 1000 > INSTANCE_TTL
SweepExpired(data, t) == t - data.timestamp * 1000 > INSTANCE_TTL

\* The Map after the setInterval callback has run at time t.
SweepMap(m, t) == SelectSeq(m, LAMBDA e : ~SweepExpired(e.data, t))

Sweep ==
    /\ now = nextSweep
    /\ gameInstances' = SweepMap(gameInstances, now)
    /\ nextSweep' = nextSweep + SWEEP_INTERVAL
    /\ req' = [NoReq EXCEPT !.op = "sweep"]
    /\ res' = NoRes
    /\ UNCHANGED <<now, nReports>>

\* Time passes, up to the sweep interval number ticks; the timer callback
\* runs before the clock passes its due time.
Advance(ticks) ==
    /\ now + ClockStep <= nextSweep
    /\ now + ClockStep <= T0 + ticks * SWEEP_INTERVAL
    /\ now' = now + ClockStep
    /\ req' = NoReq
    /\ res' = NoRes
    /\ UNCHANGED <<gameInstances, nextSweep, nReports>>

(***************************************************************************)
(* GET /api/instances                                                      *)
(***************************************************************************)
DigitChars == <<"0", "1", "2", "3", "4", "5", "6", "7", "8", "9">>
IsDigit(c) == \E i \in 1..Len(DigitChars) : DigitChars[i] = c
DigitValue(c) == (CHOOSE i \in 1..Len(DigitChars) : DigitChars[i] = c) - 1

\* The value of the longest prefix of decimal digits of s, after acc.
RECURSIVE ParseDigits(_, _)
ParseDigits(s, acc) ==
    IF s = <<>> \/ ~IsDigit(Head(s))
    THEN acc
    ELSE ParseDigits(Tail(s), acc * 10 + DigitValue(Head(s)))

\* parseInt of a query parameter; <<>> is the absent parameter.
ParseInt(s) ==
    LET signed == s # <<>> /\ Head(s) \in {"-", "+"}
        digits == IF signed THEN Tail(s) ELSE s
    IN  IF digits = <<>> \/ ~IsDigit(Head(digits))
        THEN NaN
        ELSE IF signed /\ Head(s) = "-"
             THEN Num(0 - ParseDigits(digits, 0))
             ELSE Num(ParseDigits(digits, 0))

\* parseInt(req.query.minValue) || 3000000
QueryMinValue(q) == JSOr(ParseInt(q), Num(DEFAULT_MIN_VALUE)).n
\* parseInt(req.query.limit) || 50
QueryLimit(q) == JSOr(ParseInt(q), Num(DEFAULT_LIMIT)).n

\* Array.from(gameInstances.values())
MapValues(m) == [i \in 1..Len(m) |-> m[i].data]

\* the comparator (a, b) => b.animalData.value - a.animalData.value (the
\* subtraction converts a string of digits to its number)
Compare(a, b) == b.animalData.value.n - a.animalData.value.n

\* x put into the sorted s, after every element it does not precede.
InsertSorted(s, x) ==
    LET p == Cardinality({i \in 1..Len(s) : Compare(x, s[i]) >= 0})
    IN  SubSeq(s, 1, p) \o <<x>> \o SubSeq(s, p + 1, Len(s))

\* The elements lo..hi of s inserted, in order, into the sorted acc.
RECURSIVE SortRange(_, _, _, _)
SortRange(s, lo, hi, acc) ==
    IF lo > hi THEN acc
    ELSE IF lo = hi THEN InsertSorted(acc, s[lo])
    ELSE LET mid == (lo + hi) \div 2
             left == SortRange(s, lo, mid, acc)
         \* the test makes TLC evaluate left before the second half
         IN  IF Len(left) >= 0 THEN SortRange(s, mid + 1, hi, left) ELSE left

\* Array.prototype.sort with Compare (a stable sort)
SortInstances(s) == SortRange(s, 1, Len(s), <<>>)

\* Array.prototype.slice(0, end)
Slice0(s, end) ==
    LET e == IF end < 0
             THEN (IF Len(s) + end < 0 THEN 0 ELSE Len(s) + end)
             ELSE (IF end > Len(s) THEN Len(s) ELSE end)
    IN  SubSeq(s, 1, e)

\* the object sent for one instance
View(inst, t) ==
    [placeId |-> inst.placeId,
     gameInstanceId |-> inst.gameInstanceId,
     animal |-> [name |-> inst.animalData.displayName,
                 value |-> inst.animalData.value,
                 generation |-> inst.animalData.generation,
                 rarity |-> inst.animalData.rarity],
     timestamp |-> inst.timestamp,
     age |-> Floor(t - inst.lastUpdated, 1000)]

\* the array instances: filter, sort, slice
QueryInstances(m, minValue, limit) ==
    Slice0(SortInstances(SelectSeq(MapValues(m),
               LAMBDA inst : JSGeq(inst.animalData.value, Num(minValue)))),
           limit)

QueryResponse(m, qMin, qLimit, t) ==
    LET instances == QueryInstances(m, QueryMinValue(qMin), QueryLimit(qLimit))
    IN  [NoRes EXCEPT !.status = 200, !.success = TRUE,
                      !.count = Len(instances),
                      !.instances = [i \in 1..Len(instances) |-> View(instances[i], t)]]

\* The query strings the model sends: minValue and limit.
QueryParams ==
    {<< <<>>, <<>> >>,
     << <<"4", "5", "0", "0", "0", "0", "0">>, <<"1">> >>,
     << <<"0">>, <<"2">> >>,
     << <<>>, <<"0">> >>,
     << <<"x">>, <<"-", "1">> >>}

\* A mutant of the handler: it drops the instances past the TTL as it reads.
QueryDropsOld(qMin, qLimit) ==
    /\ req' = [NoReq EXCEPT !.op = "query", !.minValue = qMin, !.limit = qLimit]
    /\ res' = QueryResponse(gameInstances, qMin, qLimit, now)
    /\ gameInstances' = SweepMap(gameInstances, now)
    /\ UNCHANGED <<now, nextSweep, nReports>>

Query(qMin, qLimit) ==
    /\ req' = [NoReq EXCEPT !.op = "query", !.minValue = qMin, !.limit = qLimit]
    /\ res' = QueryResponse(gameInstances, qMin, qLimit, now)
    /\ UNCHANGED <<gameInstances, now, nextSweep, nReports>>

(***************************************************************************)
(* GET /api/best                                                           *)
(***************************************************************************)
\* One iteration of the loop: a strictly greater value replaces the best.
BestStep(best, instance) ==
    IF JSGreater(instance.animalData.value, best.bestValue)
    THEN [bestValue |-> instance.animalData.value, bestInstance |-> <<instance>>]
    ELSE best

\* The iterations over the positions lo..hi, in order.
RECURSIVE BestScan(_, _, _, _)
BestScan(m, lo, hi, best) ==
    IF lo > hi THEN best
    ELSE IF lo = hi THEN BestStep(best, m[lo].data)
    ELSE LET mid == (lo + hi) \div 2
             left == BestScan(m, lo, mid, best)
         \* the test makes TLC evaluate left before the second half
         IN  IF Len(left.bestInstance) >= 0 THEN BestScan(m, mid + 1, hi, left) ELSE left

\* bestInstance after the loop: <<>> is null.
BestInstance(m) ==
    BestScan(m, 1, Len(m), [bestValue |-> Num(0), bestInstance |-> <<>>]).bestInstance

BestResponse(m, t) ==
    IF Len(m) = 0
    THEN [NoRes EXCEPT !.status = 200, !.success = TRUE,
                       !.message = "No instances available"]
    ELSE [NoRes EXCEPT !.status = 200, !.success = TRUE,
                       !.instance = [i \in 1..Len(BestInstance(m)) |->
                                        View(BestInstance(m)[i], t)]]

Best ==
    /\ req' = [NoReq EXCEPT !.op = "best"]
    /\ res' = BestResponse(gameInstances, now)
    /\ UNCHANGED <<gameInstances, now, nextSweep, nReports>>

(***************************************************************************)
(* GET /api/health                                                         *)
(***************************************************************************)
Health ==
    /\ req' = [NoReq EXCEPT !.op = "health"]
    /\ res' = [NoRes EXCEPT !.status = 200, !.size = Len(gameInstances)]
    /\ UNCHANGED <<gameInstances, now, nextSweep, nReports>>

(***************************************************************************)
(* DELETE /api/instance/:gameInstanceId                                    *)
(***************************************************************************)
\* The positions whose instance has this gameInstanceId.
Matches(m, id) == {i \in 1..Len(m) : m[i].data.gameInstanceId = id}
FirstMatch(m, id) == CHOOSE i \in Matches(m, id) : \A j \in Matches(m, id) : i <= j

\* A mutant of the loop: without the break every match is deleted.
DeleteEveryMatch(m, id) == SelectSeq(m, LAMBDA e : e.data.gameInstanceId # id)

\* The Map after the loop: the first match is deleted, then break.
DeleteMap(m, id) ==
    IF Matches(m, id) = {} THEN m ELSE MapDelete(m, m[FirstMatch(m, id)].key)

DeleteIds == {I1, I2, <<"i", "x", "x">>}

Delete(id) ==
    /\ gameInstances' = DeleteMap(gameInstances, id)
    /\ req' = [NoReq EXCEPT !.op = "delete", !.id = id]
    /\ res' = [NoRes EXCEPT !.status = 200, !.success = TRUE,
                            !.deleted = (Matches(gameInstances, id) # {})]
    /\ UNCHANGED <<now, nextSweep, nReports>>

\* The handlers and the timer, over one sweep interval.
Next ==
    \/ \E body \in ReportBodies : nReports < MaxReports /\ Report(body)
    \/ \E q \in QueryParams : Query(q[1], q[2])
    \/ Best
    \/ Health
    \/ \E id \in DeleteIds : Delete(id)
    \/ Sweep
    \/ Advance(ShortTicks)

Spec == Init /\ [][Next]_vars

\* The same over more than the TTL, the reports arriving early.
NextLong ==
    \/ \E body \in LongBodies :
          /\ nReports < LongReports
          /\ now <= T0 + ReportTicks * SWEEP_INTERVAL
          /\ Report(body)
    \/ \E q \in QueryParams : Query(q[1], q[2])
    \/ Best
    \/ Health
    \/ \E id \in DeleteIds : Delete(id)
    \/ Sweep
    \/ Advance(MaxTicks)

SpecLong == Init /\ [][NextLong]_vars

\* The reports sent to the full cache.
FullBodies ==
    {Body(P1, I1, Cat(Num(5000000)), Undefined, ""),
     Body(P1, I2, Cat(Num(5000000)), Undefined, ""),
     Body(P2, I1, Cat(Num(5000000)), Undefined, ""),
     Body(P1, I1, Dog(Num(2999999)), Undefined, "roblox"),
     Body(P1, I1, Dog(Num(4000000)), Num(PastStamp), ""),
     Body(<<"f">>, <<"i", "x">>, Dog(Num(4000000)), Undefined, "roblox")}

\* The full cache: every handler that can change it, the timer once, and
\* the cheap reads.
NextFull ==
    \/ \E body \in FullBodies : nReports < MaxReports /\ Report(body)
    \/ Best
    \/ Health
    \/ \E id \in DeleteIds : Delete(id)
    \/ Sweep

SpecFull == InitFull /\ [][NextFull]_vars

(***************************************************************************)
(* The callbacks statement by statement                                    *)
(***************************************************************************)
\* The report handler has stored the instance (line 63) and has not yet
\* tested the size and answered.
InReport == req.op = "report" /\ res.status = 0
\* The timer callback has read the clock (line 17) and is in its loop.
InSweep == req.op = "sweep" /\ now = nextSweep

\* A mutant of the callbacks: they yield to the event loop while they run.
CallbackYields == FALSE

\* A callback is on the stack. The handlers and the timer callback are
\* synchronous functions: the event loop calls the next one when the
\* running one has returned.
CallbackRunning == InReport \/ InSweep

\* The report handler up to gameInstances.set, or to its early return.
ReportEnter(body) ==
    IF MissingFields(body) \/ TooLow(body)
    THEN Report(body)
    ELSE /\ gameInstances' = MapSet(gameInstances,
                                    MakeKey(body.placeId, body.gameInstanceId),
                                    InstanceData(body, now))
         /\ req' = [NoReq EXCEPT !.op = "report", !.body = body]
         /\ res' = NoRes
         /\ nReports' = nReports + 1
         /\ UNCHANGED <<now, nextSweep>>

\* The rest of the report handler: the size test and the answer.
ReportLimit ==
    /\ InReport
    /\ gameInstances' = LimitSize(gameInstances)
    /\ res' = ReportResponse(req.body)
    /\ UNCHANGED <<now, nextSweep, req, nReports>>

\* The timer callback starts: const now = Date.now().
SweepEnter ==
    /\ now = nextSweep
    /\ req' = [NoReq EXCEPT !.op = "sweep"]
    /\ res' = NoRes
    /\ UNCHANGED <<gameInstances, now, nextSweep, nReports>>

\* The positions the loop of the timer callback has still to delete.
SweepPending(m, t) == {i \in 1..Len(m) : SweepExpired(m[i].data, t)}

\* One iteration of the loop that deletes: the next expired entry in
\* iteration order.
SweepDelete ==
    /\ InSweep
    /\ SweepPending(gameInstances, now) # {}
    /\ LET i == CHOOSE i \in SweepPending(gameInstances, now) :
                   \A j \in SweepPending(gameInstances, now) : i <= j
       IN  gameInstances' = MapDelete(gameInstances, gameInstances[i].key)
    /\ UNCHANGED <<now, nextSweep, req, res, nReports>>

\* The loop has ended and the callback returns; the timer is due again
\* after the interval.
SweepReturn ==
    /\ InSweep
    /\ SweepPending(gameInstances, now) = {}
    /\ nextSweep' = nextSweep + SWEEP_INTERVAL
    /\ UNCHANGED <<gameInstances, now, req, res, nReports>>

\* The reports sent while the callbacks run statement by statement.
StepBodies ==
    FullBodies \cup {Body(P1, I2, Dog(Num(4000000)), Num(PastStamp), "")}

\* The full cache, the event loop calling one callback at a time.
NextSteps ==
    \/ \E body \in StepBodies :
          ~CallbackRunning /\ nReports < MaxReports /\ ReportEnter(body)
    \/ ReportLimit
    \/ ~CallbackRunning /\ SweepEnter
    \/ SweepDelete
    \/ SweepReturn
    \/ ~CallbackRunning /\ Query(<<>>, <<>>)
    \/ ~CallbackRunning /\ Best
    \/ ~CallbackRunning /\ Health
    \/ \E id \in DeleteIds : ~CallbackRunning /\ Delete(id)

SpecSteps == InitFull /\ [][NextSteps]_vars

\* The reports whose animalData.value is a string of digits, and one whose
\* value is a number.
TextBodies ==
    {Body(P1, I1, Cat(Str(10000000)), Undefined, ""),
     Body(P1, I2, Cat(Str(9000000)), Undefined, ""),
     Body(P2, I1, Cat(Num(5000000)), Undefined, ""),
     Body(<<"f">>, <<"i", "x">>, Dog(Str(10000000)), Undefined, "roblox")}

\* The query strings sent with them: minValue and limit.
TextParams ==
    {<< <<>>, <<>> >>,
     << <<"3", "0", "0", "0", "0", "0", "0">>, <<"1">> >>}

\* Reports with values of both types, and the two reads that order them.
NextText ==
    \/ \E body \in TextBodies : nReports < TextReports /\ Report(body)
    \/ \E q \in TextParams : Query(q[1], q[2])
    \/ Best

SpecText == Init /\ [][NextText]_vars

(***************************************************************************)

(* Properties                                                              *)
(***************************************************************************)
\* The last step handled a report that was admitted and stored.
Stored == req.op = "report" /\ res.instanceId # NoId
\* The positions of the cache holding this (placeId, gameInstanceId) pair.
PairPositions(m, p, g) ==
    {i \in 1..Len(m) : m[i].data.placeId = p /\ m[i].data.gameInstanceId = g}
\* receivedAt (lastUpdated) is more than TTL before the current time.
Expired(data) == now - data.lastUpdated > INSTANCE_TTL
\* The view v shows an expired entry of the cache.
ShowsExpired(v) ==
    \E i \in PairPositions(gameInstances, v.placeId, v.gameInstanceId) :
        Expired(gameInstances[i].data)
\* The body carries an item with a numeric value below the threshold.
LowValue(body) ==
    /\ body.animalData.present
    /\ body.animalData.value.isNum
    /\ body.animalData.value.n < 3000000
\* The body lacks none of placeKey, instanceKey, item.
Complete(body) ==
    body.placeId # <<>> /\ body.gameInstanceId # <<>> /\ body.animalData.present
\* The successful not-stored outcome.
NotStoredOutcome(r) ==
    r.status = 200 /\ r.success /\ r.message = "Value too low, not stored"
    /\ r.instanceId = <<>>

\* C1: after every report, delete and sweep the cache holds at most
\* MAX_STORED_INSTANCES (100) entries.
C1_CapacityBound == Len(gameInstances) <= 100

\* C1 witness: a report of a new key into the full cache has evicted the
\* first entry and the cache holds exactly 100 entries.
C1_Witness ==
    /\ Stored
    /\ Len(gameInstances) = 100
    /\ gameInstances[100].key = res.instanceId
    /\ gameInstances[1].key = Filler(100, T0)[2].key

\* C2: no entry whose receivedAt is more than TTL before the current time
\* is returned by query or by best, also when every sweep tick due so far
\* has run.
C2_NoExpiredReturned ==
    /\ (req.op = "query" /\ now < nextSweep) =>
          \A i \in 1..Len(res.instances) : ~ShowsExpired(res.instances[i])
    /\ (req.op = "best" /\ now < nextSweep) =>
          \A i \in 1..Len(res.instance) : ~ShowsExpired(res.instance[i])

\* C3: when a sweep tick has run, no entry whose receivedAt is more than
\* TTL before the tick's time is left in the cache, whatever its reportedAt.
C3_SweepRemovesExpired ==
    req.op = "sweep" =>
        \A i \in 1..Len(gameInstances) : ~Expired(gameInstances[i].data)

\* C4 (as stated): a report whose item.value is below 3,000,000 leaves the
\* cache unchanged and returns the successful not-stored outcome.
C4_LowValueNotStored ==
    [][(nReports' = nReports + 1 /\ LowValue(req'.body))
          => (gameInstances' = gameInstances /\ NotStoredOutcome(res'))]_vars

\* C4 (amended): a report whose item.value is below 3,000,000 leaves the
\* cache unchanged; it returns the successful not-stored outcome when
\* placeKey, instanceKey and item are all present, and the validation error
\* (400) otherwise.
C4_LowValueNotStoredAmended ==
    [][(nReports' = nReports + 1 /\ LowValue(req'.body))
          => /\ gameInstances' = gameInstances
             /\ Complete(req'.body) => NotStoredOutcome(res')
             /\ ~Complete(req'.body) => (res'.status = 400 /\ ~res'.success)]_vars

\* C4 witness: a complete report below the threshold was answered with the
\* not-stored outcome while an entry is stored under its key.
C4_Witness ==
    /\ req.op = "report"
    /\ LowValue(req.body)
    /\ Complete(req.body)
    /\ NotStoredOutcome(res)
    /\ PairPositions(gameInstances, req.body.placeId, req.body.gameInstanceId) # {}

C6_ValuesNumericAboveMin ==
    \A i \in 1..Len(gameInstances) :
        /\ gameInstances[i].data.animalData.value.isNum
        /\ gameInstances[i].data.animalData.value.n >= 3000000

\* C7: an admitted report of one (placeKey, instanceKey) pair leaves every
\* entry stored for another pair in the cache, unchanged (below capacity,
\* where nothing is evicted).
C7_OtherPairsKept ==
    [][(nReports' = nReports + 1 /\ res'.instanceId # NoId
        /\ Len(gameInstances) < 100)
          => \A i \in 1..Len(gameInstances) :
                (gameInstances[i].data.placeId # req'.body.placeId
                 \/ gameInstances[i].data.gameInstanceId # req'.body.gameInstanceId)
                => \E j \in 1..Len(gameInstances') :
                       gameInstances'[j] = gameInstances[i]]_vars

\* C8: an admitted report of a new key into a cache of 100 entries evicts
\* exactly the entry at the first position: the others keep their order and
\* content and the new entry is last.
C8_EvictsFirst ==
    [][(nReports' = nReports + 1 /\ res'.instanceId # NoId
        /\ Len(gameInstances) = 100
        /\ \A i \in 1..Len(gameInstances) : gameInstances[i].key # res'.instanceId)
          => /\ Len(gameInstances') = 100
             /\ SubSeq(gameInstances', 1, 99) = Tail(gameInstances)
             /\ gameInstances'[100].key = res'.instanceId]_vars

\* C8 witness: the full cache took a new key; its former second entry is
\* now first and the new entry is last.
C8_Witness ==
    /\ Stored
    /\ Len(gameInstances) = 100
    /\ gameInstances[100].data.placeId = req.body.placeId
    /\ gameInstances[100].data.gameInstanceId = req.body.gameInstanceId
    /\ gameInstances[1] = Filler(100, T0)[2]
    /\ gameInstances[99] = Filler(100, T0)[100]

\* The number the caller supplied in a query parameter, or the default when
\* the caller supplied none.
Supplied(q, default) == IF ParseInt(q).isNum THEN ParseInt(q).n ELSE default
\* The positions of the cache whose value is at least minValue.
Qualifying(minValue) ==
    {i \in 1..Len(gameInstances) :
        /\ gameInstances[i].data.animalData.value.isNum
        /\ gameInstances[i].data.animalData.value.n >= minValue}

\* C9: query(minValue, limit), limit >= 0, returns min(limit, number of
\* entries with value >= minValue) views, each of an entry with value >=
\* minValue, in non-increasing value order, and no entry left out has a
\* greater value than one returned.
C9_QueryFilterSortLimit ==
    (req.op = "query" /\ Supplied(req.limit, 50) >= 0) =>
        LET minValue == Supplied(req.minValue, 3000000)
            limit == Supplied(req.limit, 50)
            out == res.instances
            qual == Qualifying(minValue)
            shown == {i \in qual : \E k \in 1..Len(out) :
                        /\ out[k].placeId = gameInstances[i].data.placeId
                        /\ out[k].gameInstanceId = gameInstances[i].data.gameInstanceId}
        IN  /\ Len(out) = IF limit < Cardinality(qual) THEN limit ELSE Cardinality(qual)
            /\ Cardinality(shown) = Len(out)
            /\ \A k \in 1..Len(out) :
                  \E i \in shown :
                     /\ out[k].placeId = gameInstances[i].data.placeId
                     /\ out[k].gameInstanceId = gameInstances[i].data.gameInstanceId
                     /\ out[k].animal.value = gameInstances[i].data.animalData.value
            /\ \A k \in 1..(Len(out) - 1) :
                  out[k].animal.value.n >= out[k + 1].animal.value.n
            /\ \A i \in qual \ shown : \A k \in 1..Len(out) :
                  gameInstances[i].data.animalData.value.n <= out[k].animal.value.n

\* C10: where every stored value is a number and every sweep tick due so
\* far has run, best() returns an entry whose value is the maximum over the
\* non-expired entries, and null exactly when no entry is non-expired.
C10_BestIsMaxOfLive ==
    (req.op = "best" /\ now < nextSweep
     /\ \A i \in 1..Len(gameInstances) : gameInstances[i].data.animalData.value.isNum)
      => LET live == {i \in 1..Len(gameInstances) : ~Expired(gameInstances[i].data)}
         IN  /\ res.instance = <<>> <=> live = {}
             /\ \A k \in 1..Len(res.instance) :
                   \E i \in live :
                      /\ res.instance[k].placeId = gameInstances[i].data.placeId
                      /\ res.instance[k].gameInstanceId = gameInstances[i].data.gameInstanceId
                      /\ \A j \in live :
                            gameInstances[j].data.animalData.value.n
                               <= gameInstances[i].data.animalData.value.n

\* C11: deleteByInstanceId(k) removes at most one entry: when an entry has
\* instanceKey k, the first such entry in storage order is removed, every
\* other entry (also one with the same instanceKey under another placeKey)
\* stays as it was, and deleted = true; otherwise nothing changes and
\* deleted = false.
C11_DeleteFirstMatchOnly ==
    [][req'.op = "delete"
          => LET k == req'.id
                 hits == {i \in 1..Len(gameInstances) :
                             gameInstances[i].data.gameInstanceId = k}
             IN  IF hits = {}
                 THEN gameInstances' = gameInstances /\ res'.deleted = FALSE
                 ELSE /\ res'.deleted = TRUE
                      /\ \E i \in hits :
                            /\ \A j \in hits : i <= j
                            /\ gameInstances' =
                                  SubSeq(gameInstances, 1, i - 1)
                                     \o SubSeq(gameInstances, i + 1, Len(gameInstances))]_vars

\* C11 witness: a delete answered deleted = true and the cache still holds
\* an entry with the deleted instanceKey, under another placeKey.
C11_Witness ==
    /\ req.op = "delete"
    /\ res.deleted
    /\ \E i \in 1..Len(gameInstances) :
          /\ gameInstances[i].data.gameInstanceId = req.id
          /\ gameInstances[i].data.placeId = P2

\* The item of the body is absent or empty (an object without fields).
ItemMissing(body) ==
    \/ ~body.animalData.present
    \/ /\ body.animalData.displayName = ""
       /\ ~body.animalData.value.isNum
       /\ body.animalData.generation = ""
       /\ body.animalData.rarity = ""

\* C12: a report whose placeKey, instanceKey or item is missing (absent or
\* empty) is answered with the validation error (400) and leaves the cache
\* exactly as it was.
C12_MissingFieldRejected ==
    [][(nReports' = nReports + 1
        /\ (req'.body.placeId = <<>> \/ req'.body.gameInstanceId = <<>>
            \/ ItemMissing(req'.body)))
          => (gameInstances' = gameInstances
              /\ res'.status = 400 /\ ~res'.success)]_vars

\* C13: each call runs atomically under every interleaving of requests and
\* sweep ticks: a query, best, health, delete or report call and a sweep
\* tick start only when no report is between its insert and its eviction
\* and no sweep is partially applied; so no call observes an entry count of
\* 101.
C13_CallsAtomic ==
    [][(\/ req'.op \in {"query", "best", "health", "delete"}
        \/ nReports' = nReports + 1
        \/ (req'.op = "sweep" /\ req.op # "sweep"))
          => /\ ~InReport
             /\ ~InSweep
             /\ Len(gameInstances) <= 100
             /\ (req'.op = "health" => res'.size <= 100)]_vars

\* C13 witness: health answered 100 after a report of a new key into the
\* full cache, which held 101 entries between its insert and its eviction,
\* and after the sweep tick has run.
C13_Witness ==
    /\ req.op = "health"
    /\ res.size = 100
    /\ nReports = 2
    /\ now < nextSweep
    /\ gameInstances[100].data.placeId = P1
    /\ gameInstances[1] # Filler(100, T0)[1]

\* C14: query, best and health never modify the cache: after the call the
\* entries, their fields and receivedAt and the storage order are as
\* before; the entryCount of health is the number of entries stored.
C14_ReadsChangeNothing ==
    [][req'.op \in {"query", "best", "health"}
          => /\ gameInstances' = gameInstances
             /\ req'.op = "health" => res'.size = Len(gameInstances')]_vars

\* C14 witness: a query with limit 1 returned one view and the cache still
\* holds its four entries.
C14_Witness ==
    /\ req.op = "query"
    /\ req.limit = <<"1">>
    /\ res.count = 1
    /\ nReports = 2
    /\ Len(gameInstances) = 4

\* C15: a sweep tick removes no entry whose receivedAt is within TTL of the
\* tick's time, whatever reportedAt the entry carries: an entry just stored
\* survives every sweep of the following hour.
C15_SweepKeepsFresh ==
    [][nextSweep' # nextSweep
          => \A i \in 1..Len(gameInstances) :
                ~Expired(gameInstances[i].data)
                => \E j \in 1..Len(gameInstances') :
                      gameInstances'[j] = gameInstances[i]]_vars

\* The positions of the cache that hold the greatest value, as a number.
MaxPositions ==
    {i \in 1..Len(gameInstances) :
        /\ HasNumber(gameInstances[i].data.animalData.value)
        /\ \A j \in 1..Len(gameInstances) :
              HasNumber(gameInstances[j].data.animalData.value)
              => gameInstances[j].data.animalData.value.n
                    <= gameInstances[i].data.animalData.value.n}

\* C16: when several entries share the maximum value, best() returns the
\* one that comes first in the storage order, whatever their receivedAt.
C16_BestFirstOfTies ==
    (/\ req.op = "best"
     /\ Cardinality(MaxPositions) >= 2
     /\ \A i \in MaxPositions : \A j \in MaxPositions :
           gameInstances[i].data.animalData.value
              = gameInstances[j].data.animalData.value)
      => /\ Len(res.instance) = 1
         /\ \E i \in MaxPositions :
               /\ \A j \in MaxPositions : i <= j
               /\ res.instance[1].placeId = gameInstances[i].data.placeId
               /\ res.instance[1].gameInstanceId = gameInstances[i].data.gameInstanceId
               /\ res.instance[1].animal.name = gameInstances[i].data.animalData.displayName
               /\ res.instance[1].age = (now - gameInstances[i].data.lastUpdated) \div 1000

\* C17: query honours the limit and the minValue the caller supplies: it
\* returns at most limit entries, each with a value of at least minValue,
\* and leaves out an entry with such a value only when limit entries are
\* returned; 50 and 3,000,000 apply only when the caller supplies no value.
C17_CallerValuesHonoured ==
    (req.op = "query" /\ Supplied(req.limit, 50) >= 0) =>
        LET minValue == Supplied(req.minValue, 3000000)
            limit == Supplied(req.limit, 50)
            out == res.instances
        IN  /\ Len(out) <= limit
            /\ \A k \in 1..Len(out) :
                  out[k].animal.value.isNum /\ out[k].animal.value.n >= minValue
            /\ Len(out) < limit => Len(out) = Cardinality(Qualifying(minValue))

\* C18: an admitted report that replaces an existing key does not change
\* the storage order: its entry keeps its position, and every other entry
\* stays where it was, unchanged.
C18_ReplaceKeepsOrder ==
    [][(nReports' = nReports + 1 /\ res'.instanceId # NoId
        /\ \E i \in 1..Len(gameInstances) : gameInstances[i].key = res'.instanceId)
          => /\ Len(gameInstances') = Len(gameInstances)
             /\ \A i \in 1..Len(gameInstances) :
                   /\ gameInstances'[i].key = gameInstances[i].key
                   /\ gameInstances[i].key # res'.instanceId
                      => gameInstances'[i] = gameInstances[i]]_vars

\* C18 witness: the entry of the admitted report was received after an
\* entry that follows it in the storage order: it replaced an earlier entry
\* in its place.
C18_Witness ==
    /\ Stored
    /\ \E i \in 1..Len(gameInstances) : \E j \in 1..Len(gameInstances) :
          /\ i < j
          /\ gameInstances[i].key = res.instanceId
          /\ gameInstances[i].data.lastUpdated = now
          /\ gameInstances[j].data.lastUpdated < now

\* C19: when report returns stored = true with an identity key, the cache
\* holds the reported entry under that key as the call returns: the
\* eviction of that call does not remove the entry it inserted or replaced.
C19_StoredEntryPresent ==
    (req.op = "report" /\ res.success /\ res.instanceId # NoId)
      => \E i \in 1..Len(gameInstances) :
            /\ gameInstances[i].key = res.instanceId
            /\ gameInstances[i].data.placeId = req.body.placeId
            /\ gameInstances[i].data.gameInstanceId = req.body.gameInstanceId
            /\ gameInstances[i].data.animalData.value = req.body.animalData.value
            /\ gameInstances[i].data.lastUpdated = now

\* C19 witness: the second of two reports of new keys into the full cache
\* has evicted an entry, and its own entry is in the cache.
C19_Witness ==
    /\ req.op = "report"
    /\ res.success
    /\ res.instanceId # NoId
    /\ nReports = 2
    /\ Len(gameInstances) = 100
    /\ gameInstances[1] = Filler(100, T0)[3]
    /\ gameInstances[100].key = res.instanceId
    /\ gameInstances[99].data.lastUpdated = T0

\* C20: in every reachable state of the cache best() and query agree:
\* best() is null exactly when query(MIN_VALUE, limit), limit >= 1, is
\* empty, and otherwise best() is the first element of that query's result.
C20_BestAgreesWithQuery ==
    req.op = "best" =>
        \A limit \in {<<"1">>, <<"2">>, <<>>} :
            LET first == QueryResponse(gameInstances,
                                       <<"3", "0", "0", "0", "0", "0", "0">>,
                                       limit, now).instances
            IN  /\ res.instance = <<>> <=> first = <<>>
                /\ first # <<>> => res.instance = <<first[1]>>

====
